---- MODULE Spec2Model ----
(***************************************************************************)
(* TypeFieldExtractor (pkg/engine/plan/type_field_extractor.go).           *)
(*                                                                         *)
(* The extractor is given a parsed GraphQL type-system document and        *)
(* computes two lists of TypeField records: the root nodes (entities and   *)
(* root operation types, with their non-external fields) and the child     *)
(* nodes (every (type, field) pair reachable from the root fields).        *)
(*                                                                         *)
(* The document is an input: it is chosen in Init and never changes.  One  *)
(* step of the model is one iteration of one of the loops of the source:   *)
(* a top-level node handled by getAllRootNodes, a root TypeField or a root *)
(* field handled by getAllChildNodes, a field handled by                   *)
(* findChildNodesForType.  The recursion of findChildNodesForType is an    *)
(* explicit stack of frames.                                               *)
(***************************************************************************)
EXTENDS Naturals, Sequences, FiniteSets

(***************************************************************************)
(* Bounds of the model.                                                    *)
(***************************************************************************)
MaxNodes == 2
MaxFieldDefinitions == 3

\* depth at which the recursion of findChildNodesForType is cut off; the walk
\* pushes a frame per newly registered (type, field) pair, so it stays below
MaxStackDepth == MaxFieldDefinitions + 2

\* const block of the source
federationKeyDirectiveName == "key"
federationExternalDirectiveName == "external"

\* ast.Node kinds that occur at the top level of a type-system document
NodeKindObjectTypeDefinition == "ObjectTypeDefinition"
NodeKindObjectTypeExtension == "ObjectTypeExtension"
NodeKindInterfaceTypeDefinition == "InterfaceTypeDefinition"
NodeKindScalarTypeDefinition == "ScalarTypeDefinition"

\* the name ast.Document.NodeNameString gives for ast.InvalidNode
EmptyName == ""

\* ast.InvalidNode, as an index into document.RootNodes
InvalidNode == 0

TypeNames == {"Query", "A"}
FieldNameSet == {"f", "g"}

VARIABLES
    document,    \* r.document.RootNodes: the top-level nodes, in document order
    failStage,   \* the stage of baseSchema that fails on this document (0: none)
    pc,          \* position in GetAllNodes: "root", "child", "done"
    rootIdx,     \* getAllRootNodes: index of the next top-level node
    rootNodes,   \* the rootNodes list
    baseCalls,   \* number of invocations of baseSchema so far
    i,           \* getAllChildNodes: index of the current root TypeField
    j,           \* getAllChildNodes: index of the next field name (0: not entered)
    stack,       \* frames of findChildNodesForType: [typeName, k]
    childNodes,  \* the childNodes list
    lastWalk,    \* the last call getAllChildNodes made to findChildNodesForType
    walked       \* the type names findChildNodesForType has been called with

vars == <<document, failStage, pc, rootIdx, rootNodes, baseCalls, i, j, stack,
          childNodes, lastWalk, walked>>

(***************************************************************************)
(* The schema navigator: the queries of ast.Document and ast.Index the     *)
(* extractor uses.  A node handle is an index into document (the           *)
(* RootNodes), a field ref is a 0-based index into FieldDefinitions, which *)
(* holds the field definitions of all nodes in document order.             *)
(***************************************************************************)
RECURSIVE FieldDefinitionsUpTo(_)
FieldDefinitionsUpTo(n) ==
    IF n = 0 THEN <<>> ELSE FieldDefinitionsUpTo(n - 1) \o document[n].fields

FieldDefinitions == FieldDefinitionsUpTo(Len(document))

NodeNameString(node) ==
    IF node = InvalidNode THEN EmptyName ELSE document[node].name

NodeFieldDefinitions(node) ==
    IF node = InvalidNode
        \/ document[node].kind \notin {NodeKindObjectTypeDefinition,
                                       NodeKindObjectTypeExtension,
                                       NodeKindInterfaceTypeDefinition}
    THEN <<>>
    ELSE [k \in 1..Len(document[node].fields) |->
              Len(FieldDefinitionsUpTo(node - 1)) + k - 1]

NodeDirectives(node) == document[node].directives

FieldDefinitionNameString(ref) == FieldDefinitions[ref + 1].name

FieldDefinitionHasNamedDirective(ref, directiveName) ==
    \E d \in DOMAIN FieldDefinitions[ref + 1].directives :
        FieldDefinitions[ref + 1].directives[d] = directiveName

FirstNodeByNameStr(name) ==
    LET found == {n \in DOMAIN document : document[n].name = name}
    IN  IF found = {} THEN InvalidNode
        ELSE CHOOSE n \in found : \A m \in found : n <= m

FieldDefinitionTypeNode(ref) == FirstNodeByNameStr(FieldDefinitions[ref + 1].type)

(***************************************************************************)
(* baseSchema: six library calls in sequence, nil as soon as one fails.    *)
(* The merged document is represented by the root operation type names of  *)
(* its index.                                                              *)
(***************************************************************************)
StagePrint == 1
StageBuildBaseSchema == 2
StageParse == 3
StageMerge == 4
StageReprint == 5
StageReparse == 6

NilDocument == [isNil |-> TRUE, rootOperationTypeNames |-> {}]

MergedDocument == [isNil |-> FALSE, rootOperationTypeNames |-> {"Query"}]

IsRootOperationTypeNameString(doc, name) == name \in doc.rootOperationTypeNames

\* a faulty baseSchema: the error of MergeDefinitionWithBaseSchema is dropped
baseSchemaIgnoringMergeError ==
    IF failStage \in {StagePrint, StageBuildBaseSchema, StageParse,
                      StageReprint, StageReparse}
    THEN NilDocument
    ELSE MergedDocument

baseSchema ==
    IF failStage = StagePrint THEN NilDocument
    ELSE IF failStage = StageBuildBaseSchema THEN NilDocument
    ELSE IF failStage = StageParse THEN NilDocument
    ELSE IF failStage = StageMerge THEN NilDocument
    ELSE IF failStage = StageReprint THEN NilDocument
    ELSE IF failStage = StageReparse THEN NilDocument
    ELSE MergedDocument

(***************************************************************************)
(* isEntity: the node carries a directive named key.                       *)
(***************************************************************************)
isEntity(astNode) ==
    \E d \in DOMAIN NodeDirectives(astNode) :
        NodeDirectives(astNode)[d] = federationKeyDirectiveName

(***************************************************************************)
(* addRootNodes.  localFieldNames is its loop over the field refs of the   *)
(* node, which skips the fields that carry the external directive.         *)
(***************************************************************************)
RECURSIVE localFieldNames(_)
localFieldNames(fieldRefs) ==
    IF fieldRefs = <<>> THEN <<>>
    ELSE IF FieldDefinitionHasNamedDirective(Head(fieldRefs),
                                             federationExternalDirectiveName)
         THEN localFieldNames(Tail(fieldRefs))
         ELSE <<FieldDefinitionNameString(Head(fieldRefs))>>
                  \o localFieldNames(Tail(fieldRefs))

\* a faulty addRootNodes: the check for an empty field list is missing
addRootNodesKeepingEmpty(astNode, roots) ==
    LET typeName == NodeNameString(astNode)
        doc == baseSchema
    IN  IF ~isEntity(astNode)
            /\ (doc.isNil \/ ~IsRootOperationTypeNameString(doc, typeName))
        THEN roots
        ELSE Append(roots, [TypeName |-> typeName,
                            FieldNames |-> localFieldNames(NodeFieldDefinitions(astNode))])

addRootNodes(astNode, roots) ==
    LET typeName == NodeNameString(astNode)
        doc == baseSchema
    IN  IF ~isEntity(astNode)
            /\ (doc.isNil \/ ~IsRootOperationTypeNameString(doc, typeName))
        THEN roots
        ELSE LET fieldNames == localFieldNames(NodeFieldDefinitions(astNode))
             IN  IF Len(fieldNames) = 0 THEN roots
                 ELSE Append(roots, [TypeName |-> typeName,
                                     FieldNames |-> fieldNames])

(***************************************************************************)
(* addChildTypeFieldName: result is the added flag and the new list.       *)
(***************************************************************************)
\* faulty variants of addChildTypeFieldName
\* the search for the field name in the record of the type is missing
addChildTypeFieldNameUnchecked(typeName, fieldName, children) ==
    LET same == {n \in DOMAIN children : children[n].TypeName = typeName}
    IN  IF same # {}
        THEN LET n == CHOOSE m \in same : \A o \in same : m <= o
             IN  [added |-> TRUE,
                  childNodes |-> [children EXCEPT ![n].FieldNames =
                                      Append(@, fieldName)]]
        ELSE [added |-> TRUE,
              childNodes |-> Append(children, [TypeName |-> typeName,
                                               FieldNames |-> <<fieldName>>])]

\* a new field of a known type gets a TypeField of its own
addChildTypeFieldNameNewRecord(typeName, fieldName, children) ==
    IF \E n \in DOMAIN children :
           /\ children[n].TypeName = typeName
           /\ \E f \in DOMAIN children[n].FieldNames :
                  children[n].FieldNames[f] = fieldName
    THEN [added |-> FALSE, childNodes |-> children]
    ELSE [added |-> TRUE,
          childNodes |-> Append(children, [TypeName |-> typeName,
                                           FieldNames |-> <<fieldName>>])]

\* a new field name is put in front of the names of the record
addChildTypeFieldNamePrepending(typeName, fieldName, children) ==
    LET same == {n \in DOMAIN children : children[n].TypeName = typeName}
    IN  IF same # {}
        THEN LET n == CHOOSE m \in same : \A o \in same : m <= o
             IN  IF \E f \in DOMAIN children[n].FieldNames :
                        children[n].FieldNames[f] = fieldName
                 THEN [added |-> FALSE, childNodes |-> children]
                 ELSE [added |-> TRUE,
                       childNodes |-> [children EXCEPT ![n].FieldNames =
                                           <<fieldName>> \o @]]
        ELSE [added |-> TRUE,
              childNodes |-> Append(children, [TypeName |-> typeName,
                                               FieldNames |-> <<fieldName>>])]

\* a registered pair is reported as newly added
addChildTypeFieldNameAlwaysAdded(typeName, fieldName, children) ==
    LET same == {n \in DOMAIN children : children[n].TypeName = typeName}
    IN  IF same # {}
        THEN LET n == CHOOSE m \in same : \A o \in same : m <= o
             IN  IF \E f \in DOMAIN children[n].FieldNames :
                        children[n].FieldNames[f] = fieldName
                 THEN [added |-> TRUE, childNodes |-> children]
                 ELSE [added |-> TRUE,
                       childNodes |-> [children EXCEPT ![n].FieldNames =
                                           Append(@, fieldName)]]
        ELSE [added |-> TRUE,
              childNodes |-> Append(children, [TypeName |-> typeName,
                                               FieldNames |-> <<fieldName>>])]

addChildTypeFieldName(typeName, fieldName, children) ==
    LET same == {n \in DOMAIN children : children[n].TypeName = typeName}
    IN  IF same # {}
        THEN LET n == CHOOSE m \in same : \A o \in same : m <= o
             IN  IF \E f \in DOMAIN children[n].FieldNames :
                        children[n].FieldNames[f] = fieldName
                 THEN [added |-> FALSE, childNodes |-> children]
                 ELSE [added |-> TRUE,
                       childNodes |-> [children EXCEPT ![n].FieldNames =
                                           Append(@, fieldName)]]
        ELSE [added |-> TRUE,
              childNodes |-> Append(children, [TypeName |-> typeName,
                                               FieldNames |-> <<fieldName>>])]

(***************************************************************************)
(* getAllChildNodes: the map from the field names of the first node        *)
(* indexed under the name of the root TypeField to their refs (a later     *)
(* field of the same name overwrites an earlier one), and the lookup,      *)
(* which gives Go's zero value for a missing key.                          *)
(***************************************************************************)
fieldNameToRef(fieldRefs) ==
    [name \in {FieldDefinitionNameString(fieldRefs[k]) : k \in DOMAIN fieldRefs} |->
        LET ks == {k \in DOMAIN fieldRefs :
                       FieldDefinitionNameString(fieldRefs[k]) = name}
        IN  fieldRefs[CHOOSE k \in ks : \A l \in ks : l <= k]]

mapLookup(m, key) == IF key \in DOMAIN m THEN m[key] ELSE 0

rootFieldTypeName(rootNode, fieldName) ==
    LET rootNodeASTNode == FirstNodeByNameStr(rootNode.TypeName)
        fieldRef == mapLookup(fieldNameToRef(NodeFieldDefinitions(rootNodeASTNode)),
                              fieldName)
    IN  NodeNameString(FieldDefinitionTypeNode(fieldRef))

(***************************************************************************)
(* The documents of the model: up to MaxNodes top-level nodes with up to   *)
(* MaxFieldDefinitions field definitions in all.  A node is an object type *)
(* definition or extension (with or without the key directive, its fields  *)
(* with or without the external directive), an interface type definition   *)
(* (with or without the key directive) or a scalar type definition; it is  *)
(* named Query or A, and so are the return types of its fields, so that a  *)
(* return type may be a root operation type, the type itself, another type *)
(* or a type the document does not declare.  The parser accepts documents  *)
(* that validation would reject: a type defined twice, a field name        *)
(* declared twice.                                                         *)
(***************************************************************************)
FieldNameLists == {<<>>, <<"f">>, <<"g">>, <<"f", "g">>, <<"f", "f">>}

FieldLists(directiveLists) ==
    UNION {[DOMAIN names -> [name : FieldNameSet, type : TypeNames,
                              directives : directiveLists]] : names \in FieldNameLists}

NamedAs(fields, names) == \A k \in DOMAIN names : fields[k].name = names[k]

NodeSet ==
    [kind : {NodeKindObjectTypeDefinition, NodeKindObjectTypeExtension},
     name : TypeNames,
     directives : {<<>>, <<federationKeyDirectiveName>>},
     fields : {fs \in FieldLists({<<>>, <<federationExternalDirectiveName>>}) :
                   \E names \in FieldNameLists :
                       DOMAIN names = DOMAIN fs /\ NamedAs(fs, names)}]
    \cup
    [kind : {NodeKindInterfaceTypeDefinition},
     name : TypeNames,
     directives : {<<>>, <<federationKeyDirectiveName>>},
     fields : {fs \in FieldLists({<<>>}) :
                   /\ fs # <<>>
                   /\ \E names \in FieldNameLists :
                          DOMAIN names = DOMAIN fs /\ NamedAs(fs, names)}]
    \cup
    [kind : {NodeKindScalarTypeDefinition},
     name : TypeNames,
     directives : {<<>>},
     fields : {<<>>}]

RECURSIVE FieldCount(_)
FieldCount(doc) ==
    IF doc = <<>> THEN 0 ELSE Len(Head(doc).fields) + FieldCount(Tail(doc))

Documents ==
    {doc \in UNION {[1..n -> NodeSet] : n \in 0..MaxNodes} :
         FieldCount(doc) <= MaxFieldDefinitions}

NoWalk == [root |-> 0, field |-> 0, typeName |-> EmptyName]

Init ==
    /\ document \in Documents
    /\ failStage \in 0..StageReparse
    /\ pc = "root"
    /\ rootIdx = 1
    /\ rootNodes = <<>>
    /\ baseCalls = 0
    /\ i = 0
    /\ j = 0
    /\ stack = <<>>
    /\ childNodes = <<>>
    /\ lastWalk = NoWalk
    /\ walked = {}

(***************************************************************************)
(* getAllRootNodes: one top-level node per step.                           *)
(***************************************************************************)
GetAllRootNodesStep ==
    /\ pc = "root"
    /\ rootIdx <= Len(document)
    /\ IF document[rootIdx].kind \in {NodeKindObjectTypeExtension,
                                      NodeKindObjectTypeDefinition}
       THEN /\ rootNodes' = addRootNodes(rootIdx, rootNodes)
            /\ baseCalls' = baseCalls + 1
       ELSE UNCHANGED <<rootNodes, baseCalls>>
    /\ rootIdx' = rootIdx + 1
    /\ UNCHANGED <<document, failStage, pc, i, j, stack, childNodes, lastWalk,
                   walked>>

GetAllRootNodesReturn ==
    /\ pc = "root"
    /\ rootIdx > Len(document)
    /\ pc' = "child"
    /\ i' = 1
    /\ j' = 0
    /\ UNCHANGED <<document, failStage, rootIdx, rootNodes, baseCalls, stack,
                   childNodes, lastWalk, walked>>

(***************************************************************************)
(* getAllChildNodes: the outer loop over the root TypeFields (j = 0: the   *)
(* lookup of the node and the construction of the map), the inner loop     *)
(* over the field names, and the return.                                   *)
(***************************************************************************)
ChildNodesNextRoot ==
    /\ pc = "child"
    /\ stack = <<>>
    /\ j = 0
    /\ i <= Len(rootNodes)
    /\ IF FirstNodeByNameStr(rootNodes[i].TypeName) = InvalidNode
       THEN i' = i + 1 /\ j' = 0
       ELSE i' = i /\ j' = 1
    /\ UNCHANGED <<document, failStage, pc, rootIdx, rootNodes, baseCalls, stack,
                   childNodes, lastWalk, walked>>

ChildNodesWalkField ==
    /\ pc = "child"
    /\ stack = <<>>
    /\ j >= 1
    /\ j <= Len(rootNodes[i].FieldNames)
    /\ LET fieldTypeName == rootFieldTypeName(rootNodes[i], rootNodes[i].FieldNames[j])
       IN  /\ stack' = <<[typeName |-> fieldTypeName, k |-> 1]>>
           /\ lastWalk' = [root |-> i, field |-> j, typeName |-> fieldTypeName]
           /\ walked' = walked \cup {fieldTypeName}
    /\ j' = j + 1
    /\ UNCHANGED <<document, failStage, pc, rootIdx, rootNodes, baseCalls, i,
                   childNodes>>

ChildNodesRootDone ==
    /\ pc = "child"
    /\ stack = <<>>
    /\ j >= 1
    /\ j > Len(rootNodes[i].FieldNames)
    /\ i' = i + 1
    /\ j' = 0
    /\ UNCHANGED <<document, failStage, pc, rootIdx, rootNodes, baseCalls, stack,
                   childNodes, lastWalk, walked>>

GetAllChildNodesReturn ==
    /\ pc = "child"
    /\ stack = <<>>
    /\ j = 0
    /\ i > Len(rootNodes)
    /\ pc' = "done"
    /\ UNCHANGED <<document, failStage, rootIdx, rootNodes, baseCalls, i, j, stack,
                   childNodes, lastWalk, walked>>

(***************************************************************************)
(* findChildNodesForType: the top frame handles its next field, or         *)
(* returns (the type is not in the index, or the loop is over).            *)
(***************************************************************************)
\* a faulty findChildNodesForType: the fields of a type that is in the root
\* list are passed over
FindChildNodesFieldSkippingRootTypes ==
    /\ pc = "child"
    /\ stack # <<>>
    /\ LET top == stack[Len(stack)]
           node == FirstNodeByNameStr(top.typeName)
           fieldsRefs == NodeFieldDefinitions(node)
       IN  /\ node # InvalidNode
           /\ top.k <= Len(fieldsRefs)
           /\ LET fieldRef == fieldsRefs[top.k]
                  fieldName == FieldDefinitionNameString(fieldRef)
                  res == IF \E r \in DOMAIN rootNodes : rootNodes[r].TypeName = top.typeName
                         THEN [added |-> FALSE, childNodes |-> childNodes]
                         ELSE addChildTypeFieldName(top.typeName, fieldName, childNodes)
                  fieldTypeName == NodeNameString(FieldDefinitionTypeNode(fieldRef))
                  advanced == [stack EXCEPT ![Len(stack)].k = top.k + 1]
              IN  /\ childNodes' = res.childNodes
                  /\ res.added => Len(stack) < MaxStackDepth
                  /\ stack' = IF res.added
                              THEN Append(advanced, [typeName |-> fieldTypeName, k |-> 1])
                              ELSE advanced
                  /\ walked' = IF res.added THEN walked \cup {fieldTypeName} ELSE walked
    /\ UNCHANGED <<document, failStage, pc, rootIdx, rootNodes, baseCalls, i, j,
                   lastWalk>>

FindChildNodesField ==
    /\ pc = "child"
    /\ stack # <<>>
    /\ LET top == stack[Len(stack)]
           node == FirstNodeByNameStr(top.typeName)
           fieldsRefs == NodeFieldDefinitions(node)
       IN  /\ node # InvalidNode
           /\ top.k <= Len(fieldsRefs)
           /\ LET fieldRef == fieldsRefs[top.k]
                  fieldName == FieldDefinitionNameString(fieldRef)
                  res == addChildTypeFieldName(top.typeName, fieldName, childNodes)
                  fieldTypeName == NodeNameString(FieldDefinitionTypeNode(fieldRef))
                  advanced == [stack EXCEPT ![Len(stack)].k = top.k + 1]
              IN  /\ childNodes' = res.childNodes
                  /\ res.added => Len(stack) < MaxStackDepth
                  /\ stack' = IF res.added
                              THEN Append(advanced, [typeName |-> fieldTypeName, k |-> 1])
                              ELSE advanced
                  /\ walked' = IF res.added THEN walked \cup {fieldTypeName} ELSE walked
    /\ UNCHANGED <<document, failStage, pc, rootIdx, rootNodes, baseCalls, i, j,
                   lastWalk>>

FindChildNodesReturn ==
    /\ pc = "child"
    /\ stack # <<>>
    /\ LET top == stack[Len(stack)]
           node == FirstNodeByNameStr(top.typeName)
       IN  node = InvalidNode \/ top.k > Len(NodeFieldDefinitions(node))
    /\ stack' = SubSeq(stack, 1, Len(stack) - 1)
    /\ UNCHANGED <<document, failStage, pc, rootIdx, rootNodes, baseCalls, i, j,
                   childNodes, lastWalk, walked>>

Next ==
    \/ GetAllRootNodesStep
    \/ GetAllRootNodesReturn
    \/ ChildNodesNextRoot
    \/ ChildNodesWalkField
    \/ ChildNodesRootDone
    \/ GetAllChildNodesReturn
    \/ FindChildNodesField
    \/ FindChildNodesReturn

Spec == Init /\ [][Next]_vars

(***************************************************************************)
(* The extractor is single-threaded and runs to completion: a step that    *)
(* can be taken is taken.  LiveSpec states this, over the documents whose  *)
(* nodes are object type definitions without external fields, with         *)
(* baseSchema succeeding or failing in its merge.                          *)
(***************************************************************************)
LiveInit ==
    /\ Init
    /\ failStage \in {0, StageMerge}
    /\ \A n \in DOMAIN document :
          /\ document[n].kind = NodeKindObjectTypeDefinition
          /\ \A k \in DOMAIN document[n].fields : document[n].fields[k].directives = <<>>

LiveSpec == LiveInit /\ [][Next]_vars /\ WF_vars(Next)

(***************************************************************************)
(* Vocabulary of the properties, stated on the document itself.            *)
(***************************************************************************)
Range(seq) == {seq[k] : k \in DOMAIN seq}

HasDuplicates(seq) == \E a, b \in DOMAIN seq : a # b /\ seq[a] = seq[b]

IsPrefix(a, b) == Len(a) <= Len(b) /\ \A k \in DOMAIN a : a[k] = b[k]

TypeNamesOf(list) == {list[k].TypeName : k \in DOMAIN list}

IsObjectNode(n) ==
    document[n].kind \in {NodeKindObjectTypeDefinition, NodeKindObjectTypeExtension}

CarriesKey(n) == federationKeyDirectiveName \in Range(document[n].directives)

IsLocalField(field) == federationExternalDirectiveName \notin Range(field.directives)

\* the non-external fields of node n, in declaration order
LocalFields(n) == SelectSeq(document[n].fields, IsLocalField)

LocalNames(n) == [k \in DOMAIN LocalFields(n) |-> LocalFields(n)[k].name]

\* node n is an entity, or is named as a root operation type of the base
\* schema when the base schema was resolved
Qualifies(n) ==
    /\ IsObjectNode(n)
    /\ \/ CarriesKey(n)
       \/ failStage = 0 /\ document[n].name \in MergedDocument.rootOperationTypeNames

EmitsRoot(n) == Qualifies(n) /\ LocalNames(n) # <<>>

\* the nodes among the first n that give a root TypeField, in document order
RECURSIVE RootSources(_)
RootSources(n) ==
    IF n = 0 THEN <<>>
    ELSE RootSources(n - 1) \o (IF EmitsRoot(n) THEN <<n>> ELSE <<>>)

\* number of top-level nodes getAllRootNodes has handled
Handled == IF pc = "root" THEN rootIdx - 1 ELSE Len(document)

\* the name under which the index knows a type name ("" when it does not)
IndexedName(t) == IF \E n \in DOMAIN document : document[n].name = t THEN t ELSE EmptyName

\* the declared field names of the node the index gives for type name t
FirstNodeFieldNames(t) ==
    LET n == CHOOSE m \in DOMAIN document :
                 document[m].name = t /\ \A o \in 1..(m - 1) : document[o].name # t
    IN  [k \in DOMAIN document[n].fields |-> document[n].fields[k].name]

\* the rules of GraphQL the parser does not enforce: a type name has at most
\* one definition, and the fields declared for a type name, over its
\* definition and its extensions, have distinct names
WellFormedDocument ==
    /\ \A n, m \in DOMAIN document :
          (/\ document[n].name = document[m].name
           /\ document[n].kind # NodeKindObjectTypeExtension
           /\ document[m].kind # NodeKindObjectTypeExtension) => n = m
    /\ \A n, m \in DOMAIN document :
          \A a \in DOMAIN document[n].fields, b \in DOMAIN document[m].fields :
              (/\ document[n].name = document[m].name
               /\ document[n].fields[a].name = document[m].fields[b].name)
                  => (n = m /\ a = b)

(***************************************************************************)
(* C3: getAllRootNodes gives, in document order, one TypeField per object  *)
(* type definition or extension node that is an entity or is named as a    *)
(* root operation type of the resolved base schema and has a non-external  *)
(* field; its FieldNames are the node's non-external field names in        *)
(* declaration order, so no root entry is empty or lists an external       *)
(* field.                                                                  *)
(***************************************************************************)
C3_RootNodesAsSpecified ==
    LET src == RootSources(Handled)
    IN  /\ Len(rootNodes) = Len(src)
        /\ \A k \in DOMAIN rootNodes :
              /\ rootNodes[k].TypeName = document[src[k]].name
              /\ rootNodes[k].FieldNames = LocalNames(src[k])
              /\ rootNodes[k].FieldNames # <<>>

C3_Witness ==
    /\ WellFormedDocument
    /\ pc = "done"
    /\ Len(rootNodes) = 1
    /\ \E n, m \in DOMAIN document :
          /\ EmitsRoot(n) /\ Len(LocalNames(n)) < Len(document[n].fields)
          /\ Qualifies(m) /\ ~EmitsRoot(m) /\ document[m].fields # <<>>

(***************************************************************************)
(* C4: when baseSchema returns nil the root set is exactly the entities    *)
(* that have a non-external field, with their non-external fields; a type  *)
(* name that no key-carrying node declares is not in the root set.         *)
(***************************************************************************)
C4_NilBaseSchemaKeepsEntities ==
    (failStage # 0 /\ pc = "done") =>
        /\ \A n \in DOMAIN document :
              (IsObjectNode(n) /\ CarriesKey(n) /\ LocalNames(n) # <<>>) =>
                  \E k \in DOMAIN rootNodes :
                      /\ rootNodes[k].TypeName = document[n].name
                      /\ rootNodes[k].FieldNames = LocalNames(n)
        /\ \A k \in DOMAIN rootNodes :
              \E n \in DOMAIN document :
                  /\ IsObjectNode(n) /\ CarriesKey(n)
                  /\ rootNodes[k].TypeName = document[n].name
                  /\ rootNodes[k].FieldNames = LocalNames(n)
        /\ Len(rootNodes) =
               Cardinality({n \in DOMAIN document :
                                IsObjectNode(n) /\ CarriesKey(n) /\ LocalNames(n) # <<>>})

C4_Witness ==
    /\ WellFormedDocument
    /\ failStage # 0
    /\ pc = "done"
    /\ rootNodes # <<>>
    /\ childNodes # <<>>
    /\ \E n \in DOMAIN document :
          /\ IsObjectNode(n) /\ ~CarriesKey(n) /\ LocalNames(n) # <<>>
          /\ document[n].name \in MergedDocument.rootOperationTypeNames

(***************************************************************************)
(* C9 as claimed, for well-formed documents with an object type node:      *)
(* baseSchema is invoked exactly once per GetAllNodes call, never a second *)
(* time and once by the time getAllRootNodes has returned.                 *)
(***************************************************************************)
C9_BaseSchemaInvokedOnce ==
    (WellFormedDocument /\ \E n \in DOMAIN document : IsObjectNode(n)) =>
        /\ baseCalls <= 1
        /\ pc # "root" => baseCalls = 1

(***************************************************************************)
(* C5 as claimed: in every TypeField of the root list and of the child     *)
(* list, each field name occurs at most once.                              *)
(***************************************************************************)
C5_NoDuplicateFieldNames ==
    /\ \A k \in DOMAIN rootNodes : ~HasDuplicates(rootNodes[k].FieldNames)
    /\ \A k \in DOMAIN childNodes : ~HasDuplicates(childNodes[k].FieldNames)

(***************************************************************************)
(* C5 amended: in every state of the walk each child TypeField lists each  *)
(* field name at most once; a root TypeField lists each name at most once  *)
(* when the node it was made from declares no two non-external fields of   *)
(* the same name.                                                          *)
(***************************************************************************)
C5_ChildDistinctRootAsDeclared ==
    /\ \A k \in DOMAIN childNodes : ~HasDuplicates(childNodes[k].FieldNames)
    /\ \A k \in DOMAIN rootNodes :
          ~HasDuplicates(LocalNames(RootSources(Handled)[k])) =>
              ~HasDuplicates(rootNodes[k].FieldNames)

\* the fields the walk has gone through that return type name t: the fields
\* of the indexed nodes of the child types
WalkedFieldsReturning(t) ==
    {<<n, k>> \in (DOMAIN document) \X (1..MaxFieldDefinitions) :
        /\ document[n].name \in TypeNamesOf(childNodes)
        /\ FirstNodeByNameStr(document[n].name) = n
        /\ k \in DOMAIN document[n].fields
        /\ document[n].fields[k].type = t}

C5_Witness ==
    /\ WellFormedDocument
    /\ pc = "done"
    /\ \E c \in DOMAIN childNodes :
          /\ Len(childNodes[c].FieldNames) >= 2
          /\ Cardinality(WalkedFieldsReturning(childNodes[c].TypeName)) >= 2
    /\ \E k \in DOMAIN rootNodes : Len(rootNodes[k].FieldNames) >= 2

(***************************************************************************)
(* C6 as claimed, for well-formed documents: neither list holds two        *)
(* TypeFields of the same TypeName.                                        *)
(***************************************************************************)
C6_UniqueTypeNames ==
    WellFormedDocument =>
        /\ \A a, b \in DOMAIN rootNodes :
              rootNodes[a].TypeName = rootNodes[b].TypeName => a = b
        /\ \A a, b \in DOMAIN childNodes :
              childNodes[a].TypeName = childNodes[b].TypeName => a = b

(***************************************************************************)
(* C6 amended: the child list never holds two TypeFields of the same       *)
(* TypeName; the root list holds one TypeField per qualifying node, so a   *)
(* type name occurs in it as often as qualifying nodes with a non-external *)
(* field declare it.                                                       *)
(***************************************************************************)
C6_ChildUniqueRootPerNode ==
    /\ \A a, b \in DOMAIN childNodes :
          childNodes[a].TypeName = childNodes[b].TypeName => a = b
    /\ \A t \in TypeNames :
          Cardinality({k \in DOMAIN rootNodes : rootNodes[k].TypeName = t})
              = Cardinality({n \in 1..Handled : EmitsRoot(n) /\ document[n].name = t})

C6_Witness ==
    /\ WellFormedDocument
    /\ pc = "done"
    /\ \E a, b \in DOMAIN rootNodes :
          a # b /\ rootNodes[a].TypeName = rootNodes[b].TypeName
    /\ TypeNamesOf(childNodes) # {}

(***************************************************************************)
(* C7 as claimed: the root list and the child list share no type name.     *)
(***************************************************************************)
C7_RootAndChildDisjoint ==
    pc = "done" => TypeNamesOf(rootNodes) \cap TypeNamesOf(childNodes) = {}

(***************************************************************************)
(* C7 amended: the lists are not disjoint.  Once the calls of              *)
(* findChildNodesForType have returned, every type name it was called with *)
(* that is in the root list and whose indexed node declares fields has a   *)
(* child TypeField as well as its root TypeField.                          *)
(***************************************************************************)
C7_RootTypeWalkedIsInBoth ==
    stack = <<>> =>
        \A k \in DOMAIN rootNodes :
            (/\ rootNodes[k].TypeName \in walked
             /\ NodeFieldDefinitions(FirstNodeByNameStr(rootNodes[k].TypeName)) # <<>>)
                => rootNodes[k].TypeName \in TypeNamesOf(childNodes)

C7_Witness ==
    /\ WellFormedDocument
    /\ pc = "done"
    /\ TypeNamesOf(rootNodes) \cap walked # {}
    /\ TypeNamesOf(rootNodes) \cap TypeNamesOf(childNodes) # {}

(***************************************************************************)
(* C8 as claimed, for well-formed documents: the type name                 *)
(* getAllChildNodes hands to findChildNodesForType for a field name of a   *)
(* root TypeField is the declared return type of that field of the node    *)
(* the TypeField was made from.                                            *)
(***************************************************************************)
C8_WalksTheFieldsReturnType ==
    (WellFormedDocument /\ lastWalk # NoWalk) =>
        LET n == RootSources(Len(document))[lastWalk.root]
        IN  lastWalk.typeName = IndexedName(LocalFields(n)[lastWalk.field].type)

(***************************************************************************)
(* C10: each child TypeField of a type with distinct field names is at     *)
(* every step a prefix of the declaration-order field names of the type,   *)
(* and is the full list when getAllChildNodes returns.                     *)
(***************************************************************************)
C10_ChildFieldsInDeclarationOrder ==
    \A c \in DOMAIN childNodes :
        LET declared == FirstNodeFieldNames(childNodes[c].TypeName)
        IN  ~HasDuplicates(declared) =>
                /\ IsPrefix(childNodes[c].FieldNames, declared)
                /\ pc = "done" => childNodes[c].FieldNames = declared

\* a frame of a type is on the stack below another frame of the same type,
\* with its own loop not finished and a second field already registered
C10_Witness ==
    \E a, b \in DOMAIN stack :
        /\ WellFormedDocument
        /\ a < b
        /\ stack[a].typeName = stack[b].typeName
        /\ stack[a].typeName # EmptyName
        /\ stack[a].k <= Len(NodeFieldDefinitions(FirstNodeByNameStr(stack[a].typeName)))
        /\ \E c \in DOMAIN childNodes :
              /\ childNodes[c].TypeName = stack[a].typeName
              /\ Len(childNodes[c].FieldNames) = 2
              /\ ~HasDuplicates(childNodes[c].FieldNames)

(***************************************************************************)
(* C2 as claimed, for well-formed documents: when getAllChildNodes has     *)
(* returned, the child list holds a TypeField for exactly the type names   *)
(* that declare a field and are reached from the return types of the root  *)
(* fields through return types, and each lists every field declared on its *)
(* type.                                                                   *)
(***************************************************************************)
\* the fields declared on type name t: those of the node the index gives
DeclaredFields(t) ==
    IF IndexedName(t) = EmptyName THEN {}
    ELSE LET n == CHOOSE m \in DOMAIN document :
                      document[m].name = t /\ \A o \in 1..(m - 1) : document[o].name # t
         IN  Range(document[n].fields)

RootFieldTypes ==
    UNION {{f.type : f \in Range(LocalFields(n))} :
               n \in Range(RootSources(Len(document)))}

RECURSIVE ReturnTypeClosure(_)
ReturnTypeClosure(types) ==
    LET more == types \cup UNION {{f.type : f \in DeclaredFields(t)} : t \in types}
    IN  IF more = types THEN types ELSE ReturnTypeClosure(more)

C2_ChildSetIsReachableClosure ==
    (WellFormedDocument /\ pc = "done") =>
        /\ TypeNamesOf(childNodes)
               = {t \in ReturnTypeClosure(RootFieldTypes) : DeclaredFields(t) # {}}
        /\ \A c \in DOMAIN childNodes :
              Range(childNodes[c].FieldNames)
                  = {f.name : f \in DeclaredFields(childNodes[c].TypeName)}

\* C2 holds of the well-formed documents in which no type is extended
SingleNodeTypes ==
    /\ WellFormedDocument
    /\ \A n, m \in DOMAIN document : document[n].name = document[m].name => n = m

ChildSetOfSingleNodeTypes == SingleNodeTypes => C2_ChildSetIsReachableClosure

\* the cut-off of the recursion at MaxStackDepth is never reached: a frame
\* above the first stands for a newly registered (type, field) pair
StackDepthBounded == Len(stack) <= MaxFieldDefinitions + 1

(***************************************************************************)
(* C1: getAllChildNodes terminates on every document, cyclic or not: the   *)
(* walk of findChildNodesForType returns and GetAllNodes completes.        *)
(***************************************************************************)
C1_ChildWalkTerminates == <>(pc = "done")

\* the walk has returned on a document with a cycle through two types and a
\* self-loop, all of it walked
C1_Witness ==
    /\ WellFormedDocument
    /\ pc = "done"
    /\ \E a, b \in DOMAIN childNodes :
          /\ a # b
          /\ \E f \in DeclaredFields(childNodes[a].TypeName) :
                 f.type = childNodes[b].TypeName
          /\ \E f \in DeclaredFields(childNodes[b].TypeName) :
                 f.type = childNodes[a].TypeName
          /\ \E f \in DeclaredFields(childNodes[a].TypeName) :
                 f.type = childNodes[a].TypeName

====
